---- MODULE Spec2Model ----
(***************************************************************************)
(* Model of the bug report service: BugReportController (submit, update)  *)
(* over the ghp_bug_reports table, with the store's atomic increment      *)
(* function increment_bug_duplicate_count.                                *)
(*                                                                         *)
(* Strings that the code inspects character by character (appId,          *)
(* description, screenName) are sequences of one-character strings.       *)
(* Time is counted in days; created_at and the request clock share one    *)
(* clock.  Record ids are the positions in the table (never reused).      *)
(* SHA-256 is idealised as collision free: the digest of an input is      *)
(* represented by the input itself.                                       *)
(***************************************************************************)
EXTENDS Integers, Sequences, FiniteSets, TLC

(* ---------------------------- bounds ----------------------------------- *)
NumProcs == 2
MaxRequests == 3
MaxTail == 2

(* ------------------------ program constants ---------------------------- *)
WindowDays == 7
MinDescription == 5
MaxNormalized == 200
DigestLen == 64

NULL == 0

Procs == 1..NumProcs

(* ------------------------- characters ---------------------------------- *)
UpperSeq == <<"A","B","C","D","E","F","G","H","I","J","K","L","M",
              "N","O","P","Q","R","S","T","U","V","W","X","Y","Z">>
LowerSeq == <<"a","b","c","d","e","f","g","h","i","j","k","l","m",
              "n","o","p","q","r","s","t","u","v","w","x","y","z">>
Digits == {"0","1","2","3","4","5","6","7","8","9"}
Whitespace == {" ", "\t", "\n"}

Range(s) == {s[i] : i \in 1..Len(s)}

\* String.prototype.toLowerCase on one character
toLowerCase(c) ==
    IF \E i \in 1..26 : UpperSeq[i] = c
    THEN LowerSeq[CHOOSE i \in 1..26 : UpperSeq[i] = c]
    ELSE c

\* the character class [a-z0-9\s] whose complement the replace() removes
Kept(c) == c \in Range(LowerSeq) \cup Digits \cup Whitespace

MapLower(s) == [i \in 1..Len(s) |-> toLowerCase(s[i])]

Strip(s) == SelectSeq(s, Kept)

\* String.prototype.trim: drop leading and trailing whitespace
trim(s) ==
    LET idx == {i \in 1..Len(s) : s[i] \notin Whitespace}
    IN  IF idx = {} THEN <<>>
        ELSE LET lo == CHOOSE i \in idx : \A j \in idx : i <= j
                 hi == CHOOSE i \in idx : \A j \in idx : j <= i
             IN  SubSeq(s, lo, hi)

\* String.prototype.substring(0, n)
substring(s, n) == IF Len(s) <= n THEN s ELSE SubSeq(s, 1, n)

\* the normalization without toLowerCase
normalize_KeepCase(description) ==
    substring(trim(Strip(description)), MaxNormalized)

normalize(description) ==
    substring(trim(Strip(MapLower(description))), MaxNormalized)

\* the digest of the description and the screen name alone
generateFingerprint_NoTenant(appId, description, screenName) ==
    normalize(description) \o <<":">> \o screenName

\* the digest of the composed input; the hex digest has 64 characters, so
\* the final substring(0, 64) keeps all of it
generateFingerprint(appId, description, screenName) ==
    appId \o <<":">> \o normalize(description) \o <<":">> \o screenName

(* --------------------------- inputs ------------------------------------ *)
App1 == <<"a","1">>
App2 == <<"a","2">>
\* a tenant id with a colon in it: "a1:crash"
App3 == <<"a","1",":","c","r","a","s","h">>
NoApp == <<>>
AppIds == {App1, App2, App3}

DescCrashLoud == <<"C","r","a","s","h","!">>
DescCrash == <<"c","r","a","s","h">>
\* " bad ": five characters, three of them after trim
DescShort == <<" ","b","a","d"," ">>
Descriptions == {DescCrashLoud, DescCrash}

Priorities == {"low", "medium", "high"}
Statuses == {"open", "in_progress", "resolved", "wont_fix", "duplicate"}
FixStatuses == {"pending", "accepted", "rejected", "implemented"}

NoScreen == <<>>
\* the screen name "crash:"
ScreenCrash == <<"c","r","a","s","h",":">>
ScreenNames == {NoScreen, ScreenCrash}

Body(a, d, pr) ==
    [appId |-> a, description |-> d, priority |-> pr, screenName |-> NoScreen]

\* the request bodies submitted: two wordings of one report, the same report
\* under a second tenant, and three invalid bodies
Bodies ==
    {Body(App1, DescCrashLoud, "high"), Body(App1, DescCrash, "low"),
     Body(App2, DescCrash, "low"),
     Body(NoApp, DescCrash, "low"), Body(App1, DescShort, "low"),
     Body(App1, DescCrash, "urgent")}

BodyOn(a, d, pr, sn) ==
    [appId |-> a, description |-> d, priority |-> pr, screenName |-> sn]

\* one description under three tenants; the fingerprint input of the first,
\* "a1" ":" "crash" ":" "crash:", is also that of the second,
\* "a1:crash" ":" "crash" ":" ""
TenantBodies ==
    {BodyOn(App1, DescCrash, "low", ScreenCrash),
     Body(App3, DescCrash, "low"),
     Body(App2, DescCrash, "low")}

\* descriptions for the calls of generateFingerprint: every text of up to
\* MaxTail characters of "B" and " ", alone and after 199 letters, so that
\* the longer ones pass the 200th character
TailChars == {"B", " "}
Tails == UNION {[1..n -> TailChars] : n \in 0..MaxTail}
Pad == [i \in 1..(MaxNormalized - 1) |-> "a"]
CallDescriptions == Tails \cup {Pad \o t : t \in Tails} \cup Descriptions

\* the bodies submitted next to updates and reads: one report of each of
\* two tenants
LedgerBodies ==
    {Body(App1, DescCrashLoud, "high"), Body(App2, DescCrash, "low")}

\* body b with an array of screenshots, and with a single screenshot in the
\* older format
WithScreenshots(b, shots) == [screenshotBase64s |-> shots] @@ b

WithScreenshot(b, shot) == [screenshotBase64 |-> shot] @@ b

\* one report sent without a screenshot, with a single screenshot, and with
\* an array (two images around an empty entry) next to a single one
AttachmentBodies ==
    {Body(App1, DescCrash, "low"),
     WithScreenshot(Body(App1, DescCrash, "low"), "s3"),
     WithScreenshot(
         WithScreenshots(Body(App1, DescCrash, "low"), <<"s1", "", "s2">>),
         "s3")}

\* the bodies submitted to a store that may fail: two wordings of one report
FaultBodies ==
    {Body(App1, DescCrashLoud, "high"), Body(App1, DescCrash, "low")}

\* the bodies submitted next to lists and statistics: two wordings and
\* priorities of one report, and the report under a second tenant
ReadBodies ==
    {Body(App1, DescCrashLoud, "high"), Body(App1, DescCrash, "low"),
     Body(App2, DescCrash, "low")}

NoBody == [appId |-> NoApp, description |-> <<>>, priority |-> "",
           screenName |-> NoScreen]

Fingerprints ==
    UNION {{generateFingerprint(a, d, sn) : a \in AppIds, d \in Descriptions} :
              sn \in ScreenNames}

NoFingerprint == <<>>

\* a dedup key: the tenant and the fingerprint
Keys == AppIds \X Fingerprints

(* ---------------------------- state ------------------------------------ *)
VARIABLES
    reports,              \* the ghp_bug_reports table, in insertion order
    clock,                \* the current day
    pc,                   \* per request slot: where the handler stands
    body,                 \* req.body of the submit in the slot
    fingerprint,          \* the submit's fingerprint
    existingCanonicalId,  \* what findDuplicate returned to the submit
    bugReportId,          \* the id of the record the submit inserted
    faults,               \* store operations of the submit that failed
    screenshotUrls,       \* the URLs of the submit's uploaded screenshots
    lastResp,             \* the response sent last
    lastFaults,           \* the failed store operations of the submit that
                          \* sent it
    nRequests,            \* requests received so far
    raced,                \* two submits of one key have been in flight at once
    late,                 \* a submit came > 7 days after its key's first record
    overlapped,           \* an increment ran while a peer's was still pending
    boundaryHit,          \* a lookup matched a record created exactly 7 days
                          \* before it
    closedMatch,          \* a lookup matched a record whose status was
                          \* resolved or wont_fix
    lostIncrement,        \* an increment failed
    raceSeen,             \* a lookup found two canonical records of its key,
                          \* created at different times, inside the window
    updatedInFlight,      \* an update changed a record that a submit in
                          \* flight had matched
    nSubmitted,           \* per key, submits answered with success
    calls,                \* calls of generateFingerprint made on their own:
                          \* the arguments, the normalized text, the digest
    statusCounts          \* what the first query of a getStats in progress
                          \* returned

vars == <<reports, clock, pc, body, fingerprint, existingCanonicalId,
          bugReportId, faults, screenshotUrls, lastResp, lastFaults,
          nRequests, raced, late, overlapped, boundaryHit, closedMatch,
          lostIncrement, raceSeen, updatedInFlight, nSubmitted,
          calls,
                   statusCounts>>

locals == <<pc, body, fingerprint, existingCanonicalId, bugReportId, faults,
           screenshotUrls>>

history == <<raced, late, overlapped, boundaryHit, closedMatch,
            lostIncrement, raceSeen, updatedInFlight, nSubmitted>>

\* a response: the HTTP status, the fields of the submit's 201 body, the
\* error message of a failure, and the row, the page or the figures that a
\* read or an update returns
NoResp == [code |-> 0, id |-> NULL, status |-> "", isDuplicate |-> FALSE,
           canonicalId |-> NULL, error |-> "", bugReport |-> <<>>,
           bugReports |-> <<>>, hasMore |-> FALSE, stats |-> <<>>,
           duplicates |-> <<>>, count |-> 0, screenshotCount |-> 0]

\* no getStats in progress
NoStats == [appId |-> <<>>, total |-> 0, byStatus |-> <<>>]

Ids == 1..Len(reports)

InFlight(p) == pc[p] # "idle"

KeyOf(p) == <<body[p].appId, fingerprint[p]>>

RecKey(r) == <<r.app_id, r.fingerprint>>

(* ------------------------ the store ------------------------------------ *)
\* the query without .is('canonical_id', null)
MatchingRows_AnyRow(rs, fp, appId, now) ==
    {i \in 1..Len(rs) :
        /\ rs[i].fingerprint = fp
        /\ rs[i].app_id = appId
        /\ rs[i].created_at >= now - WindowDays}

\* the query with .gt in place of .gte
MatchingRows_Exclusive(rs, fp, appId, now) ==
    {i \in 1..Len(rs) :
        /\ rs[i].fingerprint = fp
        /\ rs[i].app_id = appId
        /\ rs[i].created_at > now - WindowDays
        /\ rs[i].canonical_id = NULL}

\* the query without .eq('app_id', appId)
MatchingRows_AnyTenant(rs, fp, appId, now) ==
    {i \in 1..Len(rs) :
        /\ rs[i].fingerprint = fp
        /\ rs[i].created_at >= now - WindowDays
        /\ rs[i].canonical_id = NULL}

\* the query without .gte('created_at', sevenDaysAgo)
MatchingRows_NoWindow(rs, fp, appId, now) ==
    {i \in 1..Len(rs) :
        /\ rs[i].fingerprint = fp
        /\ rs[i].app_id = appId
        /\ rs[i].canonical_id = NULL}

\* the query with a filter on records still open
MatchingRows_OpenOnly(rs, fp, appId, now) ==
    {i \in 1..Len(rs) :
        /\ rs[i].fingerprint = fp
        /\ rs[i].app_id = appId
        /\ rs[i].created_at >= now - WindowDays
        /\ rs[i].canonical_id = NULL
        /\ rs[i].status = "open"}

\* rows selected by the filters of findDuplicate's query
MatchingRows(rs, fp, appId, now) ==
    {i \in 1..Len(rs) :
        /\ rs[i].fingerprint = fp
        /\ rs[i].app_id = appId
        /\ rs[i].created_at >= now - WindowDays
        /\ rs[i].canonical_id = NULL}

\* the query ordered with ascending: false
FirstRows_Newest(rs, fp, appId, now) ==
    LET m == MatchingRows(rs, fp, appId, now)
    IN  {i \in m : \A j \in m : rs[i].created_at >= rs[j].created_at}

\* .order('created_at', ascending).limit(1): the rows that can come first
FirstRows(rs, fp, appId, now) ==
    LET m == MatchingRows(rs, fp, appId, now)
    IN  {i \in m : \A j \in m : rs[i].created_at <= rs[j].created_at}

\* the values findDuplicate can return when the store answers the query
findDuplicate(rs, fp, appId, now) ==
    IF FirstRows(rs, fp, appId, now) = {} THEN {NULL}
    ELSE FirstRows(rs, fp, appId, now)

\* screenshot_url of a record without a screenshot: null
NoUrl == <<>>

\* the public URL of an uploaded screenshot. The file name is made of the
\* tenant, the time and random bytes; the model names the file by the
\* tenant and the image it holds.
Url(appId, base64) == <<"bug-screenshots", appId, base64>>

\* the images that the body asks to upload: those of the array when the body
\* has one, else the single image of the older format
Entries(b) ==
    IF "screenshotBase64s" \in DOMAIN b THEN b.screenshotBase64s
    ELSE IF "screenshotBase64" \in DOMAIN b THEN <<b.screenshotBase64>>
    ELSE <<>>

\* the positions uploaded: an empty entry is passed over
Attempted(b) == {n \in 1..Len(Entries(b)) : Entries(b)[n] # ""}

\* the URLs pushed with unshift: the latest upload first
RECURSIVE UploadScreenshots_Unshift(_, _, _)
UploadScreenshots_Unshift(b, failed, n) ==
    IF n = 0 THEN <<>>
    ELSE LET rest == UploadScreenshots_Unshift(b, failed, n - 1)
         IN  IF n \in Attempted(b) \ failed
             THEN <<Url(b.appId, Entries(b)[n])>> \o rest
             ELSE rest

\* screenshotUrls after the first n entries: each entry uploaded in turn,
\* the URL pushed when the upload returned one. failed: the positions
\* whose upload returns null
RECURSIVE UploadScreenshots(_, _, _)
UploadScreenshots(b, failed, n) ==
    IF n = 0 THEN <<>>
    ELSE LET rest == UploadScreenshots(b, failed, n - 1)
         IN  IF n \in Attempted(b) \ failed
             THEN Append(rest, Url(b.appId, Entries(b)[n]))
             ELSE rest

\* the insert with duplicate_count 0 for every row
NewReport_CountFromZero(b, fp, existing, now, urls) ==
    [app_id |-> b.appId,
     description |-> trim(b.description),
     priority |-> b.priority,
     status |-> IF existing # NULL THEN "duplicate" ELSE "open",
     fingerprint |-> fp,
     canonical_id |-> existing,
     duplicate_count |-> 0,
     fix_status |-> "",
     suggested_fix |-> "",
     claude_analysis |-> "",
     created_at |-> now,
     screenshot_url |-> IF urls = <<>> THEN NoUrl ELSE urls[1],
     screenshot_urls |-> urls]

\* the insert leaving duplicate_count to the column default, 1
NewReport_DefaultCount(b, fp, existing, now, urls) ==
    [app_id |-> b.appId,
     description |-> trim(b.description),
     priority |-> b.priority,
     status |-> IF existing # NULL THEN "duplicate" ELSE "open",
     fingerprint |-> fp,
     canonical_id |-> existing,
     duplicate_count |-> 1,
     fix_status |-> "",
     suggested_fix |-> "",
     claude_analysis |-> "",
     created_at |-> now,
     screenshot_url |-> IF urls = <<>> THEN NoUrl ELSE urls[1],
     screenshot_urls |-> urls]

\* the insert with the status of the former schema, 'new'
NewReport_StatusNew(b, fp, existing, now, urls) ==
    [app_id |-> b.appId,
     description |-> trim(b.description),
     priority |-> b.priority,
     status |-> IF existing # NULL THEN "duplicate" ELSE "new",
     fingerprint |-> fp,
     canonical_id |-> existing,
     duplicate_count |-> IF existing # NULL THEN 0 ELSE 1,
     fix_status |-> "",
     suggested_fix |-> "",
     claude_analysis |-> "",
     created_at |-> now,
     screenshot_url |-> IF urls = <<>> THEN NoUrl ELSE urls[1],
     screenshot_urls |-> urls]

\* the row written by submitBugReport's insert
NewReport(b, fp, existing, now, urls) ==
    [app_id |-> b.appId,
     description |-> trim(b.description),
     priority |-> b.priority,
     status |-> IF existing # NULL THEN "duplicate" ELSE "open",
     fingerprint |-> fp,
     canonical_id |-> existing,
     duplicate_count |-> IF existing # NULL THEN 0 ELSE 1,
     fix_status |-> "",
     suggested_fix |-> "",
     claude_analysis |-> "",
     created_at |-> now,
     screenshot_url |-> IF urls = <<>> THEN NoUrl ELSE urls[1],
     screenshot_urls |-> urls]

\* the increment as a write of a value read earlier (1, at the lookup) plus 1
increment_bug_duplicate_count_LostUpdate(rs, id) ==
    [i \in 1..Len(rs) |->
        IF i = id THEN [rs[i] EXCEPT !.duplicate_count = 1 + 1] ELSE rs[i]]

\* the increment also reopening the canonical record
increment_bug_duplicate_count_Reopen(rs, id) ==
    [i \in 1..Len(rs) |->
        IF i = id
        THEN [rs[i] EXCEPT !.duplicate_count = @ + 1, !.status = "open"]
        ELSE rs[i]]

\* the increment matching no row
increment_bug_duplicate_count_NoRow(rs, id) == rs

\* UPDATE ... SET duplicate_count = duplicate_count + 1 WHERE id = p_canonical_id
increment_bug_duplicate_count(rs, id) ==
    [i \in 1..Len(rs) |->
        IF i = id THEN [rs[i] EXCEPT !.duplicate_count = @ + 1] ELSE rs[i]]

(* ------------------------- submitBugReport ----------------------------- *)
\* the length check on the description as sent
ValidSubmit_NoTrim(b) ==
    /\ b.appId # <<>>
    /\ Len(b.description) >= MinDescription
    /\ b.priority \in Priorities

ValidSubmit(b) ==
    /\ b.appId # <<>>
    /\ Len(trim(b.description)) >= MinDescription
    /\ b.priority \in Priorities

\* the message of the first validation that fails
SubmitError(b) ==
    IF b.appId = <<>> THEN "appId is required"
    ELSE IF Len(trim(b.description)) < MinDescription
    THEN "description is required (min 5 characters)"
    ELSE "priority must be low, medium, or high"

\* the answer of a handler whose store call failed: the catch block's 500
InternalError == [NoResp EXCEPT !.code = 500, !.error = "store error"]

\* the first record of a key is older than the window at this lookup
IsLate(k) ==
    \E i \in Ids : RecKey(reports[i]) = k
                   /\ clock - reports[i].created_at > WindowDays

\* the handler returns: its locals go out of scope and the slot is free
Return(p, r, f) ==
    /\ pc' = [pc EXCEPT ![p] = "idle"]
    /\ body' = [body EXCEPT ![p] = NoBody]
    /\ fingerprint' = [fingerprint EXCEPT ![p] = NoFingerprint]
    /\ existingCanonicalId' = [existingCanonicalId EXCEPT ![p] = NULL]
    /\ bugReportId' = [bugReportId EXCEPT ![p] = NULL]
    /\ faults' = [faults EXCEPT ![p] = {}]
    /\ screenshotUrls' = [screenshotUrls EXCEPT ![p] = <<>>]
    /\ lastResp' = r
    /\ lastFaults' = f

\* the 201 response body
Created(id, st, existing, n) ==
    [code |-> 201, id |-> id, status |-> st, screenshotCount |-> n,
     isDuplicate |-> existing # NULL, canonicalId |-> existing,
     error |-> "", bugReport |-> <<>>, bugReports |-> <<>>,
     hasMore |-> FALSE, stats |-> <<>>, duplicates |-> <<>>, count |-> 0]

\* the request arrives and takes the first free slot (the slots are
\* interchangeable): validation and fingerprinting run synchronously,
\* then await findDuplicate(fingerprint, appId).
\* fail: the store does not answer the query; the client returns
\* { data: null, error }, of which only data is read
SubmitLookup(p, b, fail) ==
    /\ pc[p] = "idle"
    /\ \A q \in Procs : q < p => InFlight(q)
    /\ nRequests < MaxRequests
    /\ nRequests' = nRequests + 1
    /\ IF ~ValidSubmit(b)
       THEN /\ ~fail
            /\ Return(p, [NoResp EXCEPT !.code = 400,
                                        !.error = SubmitError(b)], {})
            /\ UNCHANGED <<raced, late, boundaryHit, closedMatch, raceSeen>>
       ELSE LET fp == generateFingerprint(b.appId, b.description, b.screenName)
                k == <<b.appId, fp>>
            IN  /\ pc' = [pc EXCEPT ![p] = "insert"]
                /\ body' = [body EXCEPT ![p] = b]
                /\ fingerprint' = [fingerprint EXCEPT ![p] = fp]
                /\ IF fail
                   THEN /\ existingCanonicalId' =
                               [existingCanonicalId EXCEPT ![p] = NULL]
                        /\ faults' = [faults EXCEPT ![p] = {"lookup"}]
                        /\ UNCHANGED <<boundaryHit, closedMatch>>
                   ELSE /\ \E c \in findDuplicate(reports, fp, b.appId, clock) :
                             /\ existingCanonicalId' =
                                   [existingCanonicalId EXCEPT ![p] = c]
                             /\ boundaryHit' =
                                   (boundaryHit \/
                                    (c # NULL /\ reports[c].created_at
                                                   = clock - WindowDays))
                             /\ closedMatch' =
                                   (closedMatch \/
                                    (c # NULL /\ reports[c].status
                                        \in {"resolved", "wont_fix"}))
                        /\ faults' = [faults EXCEPT ![p] = {}]
                /\ raced' = (raced \/ \E q \in Procs \ {p} :
                                          InFlight(q) /\ KeyOf(q) = k)
                /\ late' = (late \/ IsLate(k))
                /\ raceSeen' =
                      (raceSeen \/
                       (~fail /\ \E i, j \in MatchingRows(reports, fp, b.appId,
                                                          clock) :
                           reports[i].created_at # reports[j].created_at))
                /\ UNCHANGED <<bugReportId, screenshotUrls, lastResp,
                               lastFaults>>
    /\ UNCHANGED <<reports, clock, overlapped, lostIncrement,
                   updatedInFlight, nSubmitted, calls, statusCounts>>

\* the insert without "if (error) throw error": the handler goes on to the
\* increment although no record was inserted
SubmitInsert_IgnoresError(p, fail, failed) ==
    /\ pc[p] = "insert"
    /\ failed \subseteq Attempted(body[p])
    /\ reports' = IF fail THEN reports
                  ELSE Append(reports,
                         NewReport(body[p], fingerprint[p],
                                   existingCanonicalId[p], clock,
                                   UploadScreenshots(body[p], failed,
                                       Len(Entries(body[p])))))
    /\ IF existingCanonicalId[p] # NULL
       THEN /\ pc' = [pc EXCEPT ![p] = "increment"]
            /\ screenshotUrls' = [screenshotUrls EXCEPT ![p] =
                   UploadScreenshots(body[p], failed, Len(Entries(body[p])))]
            /\ bugReportId' = [bugReportId EXCEPT ![p] =
                                  IF fail THEN NULL ELSE Len(reports) + 1]
            /\ faults' = [faults EXCEPT ![p] =
                             IF fail THEN @ \cup {"insert"} ELSE @]
            /\ UNCHANGED <<body, fingerprint, existingCanonicalId,
                           lastResp, lastFaults, nSubmitted>>
       ELSE /\ Return(p, IF fail THEN InternalError
                         ELSE Created(Len(reports) + 1, "open", NULL,
                                 Len(UploadScreenshots(body[p], failed,
                                         Len(Entries(body[p]))))),
                      IF fail THEN faults[p] \cup {"insert"} ELSE faults[p])
            /\ nSubmitted' = IF fail THEN nSubmitted
                             ELSE [nSubmitted EXCEPT ![KeyOf(p)] = @ + 1]
    /\ UNCHANGED <<clock, nRequests, raced, late, overlapped, boundaryHit,
                   closedMatch, lostIncrement, raceSeen, updatedInFlight,
                   calls, statusCounts>>

\* the uploads and the insert. The uploads write to the object store only
\* and uploadScreenshot catches every error, so they take part in the step
\* of the insert; failed: the positions whose upload returns null. On an
\* error of the insert the handler throws and answers 500; otherwise a
\* submit without a match logs and answers 201 at once
SubmitInsert(p, fail, failed) ==
    /\ pc[p] = "insert"
    /\ failed \subseteq Attempted(body[p])
    /\ IF fail
       THEN /\ Return(p, InternalError, faults[p] \cup {"insert"})
            /\ UNCHANGED <<reports, nSubmitted>>
       ELSE LET urls == UploadScreenshots(body[p], failed,
                                         Len(Entries(body[p])))
            IN
            /\ reports' = Append(reports,
                   NewReport(body[p], fingerprint[p], existingCanonicalId[p],
                             clock, urls))
            /\ IF existingCanonicalId[p] # NULL
               THEN /\ pc' = [pc EXCEPT ![p] = "increment"]
                    /\ bugReportId' = [bugReportId EXCEPT ![p] =
                                          Len(reports) + 1]
                    /\ screenshotUrls' = [screenshotUrls EXCEPT ![p] = urls]
                    /\ UNCHANGED <<body, fingerprint, existingCanonicalId,
                                   faults, lastResp, lastFaults, nSubmitted>>
               ELSE /\ Return(p, Created(Len(reports) + 1, "open", NULL,
                                         Len(urls)),
                              faults[p])
                    /\ nSubmitted' = [nSubmitted EXCEPT ![KeyOf(p)] = @ + 1]
    /\ UNCHANGED <<clock, nRequests, raced, late, overlapped, boundaryHit,
                   closedMatch, lostIncrement, raceSeen, updatedInFlight,
                   calls, statusCounts>>

\* await supabase.rpc('increment_bug_duplicate_count'); the result of the
\* call is not looked at, and the handler answers 201
SubmitIncrement(p, fail) ==
    /\ pc[p] = "increment"
    /\ IF fail
       THEN UNCHANGED reports
       ELSE reports' = increment_bug_duplicate_count(
                           reports, existingCanonicalId[p])
    /\ Return(p, Created(bugReportId[p], "duplicate", existingCanonicalId[p],
                         Len(screenshotUrls[p])),
              IF fail THEN faults[p] \cup {"increment"} ELSE faults[p])
    /\ nSubmitted' = [nSubmitted EXCEPT ![KeyOf(p)] = @ + 1]
    /\ overlapped' = (overlapped \/ \E q \in Procs \ {p} :
                          /\ pc[q] = "increment"
                          /\ existingCanonicalId[q] = existingCanonicalId[p])
    /\ lostIncrement' = (lostIncrement \/ fail)
    /\ UNCHANGED <<clock, nRequests, raced, late, boundaryHit, closedMatch,
                   raceSeen, updatedInFlight, calls, statusCounts>>

(* ------------------------- updateBugReport ----------------------------- *)
\* a field that the request body does not have
NoValue == ""

NoUpdate == [status |-> NoValue, fixStatus |-> NoValue,
             suggestedFix |-> NoValue, claudeAnalysis |-> NoValue]

\* the update bodies sent: none of the fields, each one alone (two statuses
\* that close a report), all four
UpdateBodies ==
    {NoUpdate,
     [NoUpdate EXCEPT !.status = "resolved"],
     [NoUpdate EXCEPT !.status = "wont_fix"],
     [NoUpdate EXCEPT !.fixStatus = "accepted"],
     [NoUpdate EXCEPT !.suggestedFix = "fix"],
     [NoUpdate EXCEPT !.claudeAnalysis = "analysis"],
     [status |-> "in_progress", fixStatus |-> "pending",
      suggestedFix |-> "fix", claudeAnalysis |-> "analysis"]}

\* updates.status assigned whether or not the body has a status
Updates_StatusAlways(u) ==
    {"status"}
      \cup {f \in {"fix_status", "suggested_fix", "claude_analysis"} :
              \/ f = "fix_status" /\ u.fixStatus # NoValue
              \/ f = "suggested_fix" /\ u.suggestedFix # NoValue
              \/ f = "claude_analysis" /\ u.claudeAnalysis # NoValue}

\* the keys of the updates object built from the supplied fields
Updates(u) ==
    {f \in {"status", "fix_status", "suggested_fix", "claude_analysis"} :
        \/ f = "status" /\ u.status # NoValue
        \/ f = "fix_status" /\ u.fixStatus # NoValue
        \/ f = "suggested_fix" /\ u.suggestedFix # NoValue
        \/ f = "claude_analysis" /\ u.claudeAnalysis # NoValue}

\* the whole row written back, with the duplicate_count it was created with
Updated_WholeRow(r, u) ==
    [r EXCEPT
        !.status = IF "status" \in Updates(u) THEN u.status ELSE @,
        !.fix_status = IF "fix_status" \in Updates(u) THEN u.fixStatus ELSE @,
        !.suggested_fix =
            IF "suggested_fix" \in Updates(u) THEN u.suggestedFix ELSE @,
        !.claude_analysis =
            IF "claude_analysis" \in Updates(u) THEN u.claudeAnalysis ELSE @,
        !.duplicate_count = IF r.canonical_id = NULL THEN 1 ELSE 0]

\* the row with the updates object written over it
Updated(r, u) ==
    [r EXCEPT
        !.status = IF "status" \in Updates(u) THEN u.status ELSE @,
        !.fix_status = IF "fix_status" \in Updates(u) THEN u.fixStatus ELSE @,
        !.suggested_fix =
            IF "suggested_fix" \in Updates(u) THEN u.suggestedFix ELSE @,
        !.claude_analysis =
            IF "claude_analysis" \in Updates(u) THEN u.claudeAnalysis ELSE @]

\* the update without .eq('id', id)
ApplyUpdate_AllRows(rs, id, u) ==
    [i \in 1..Len(rs) |-> Updated(rs[i], u)]

\* .update(updates).eq('id', id): one atomic row update
ApplyUpdate(rs, id, u) ==
    [i \in 1..Len(rs) |-> IF i = id THEN Updated(rs[i], u) ELSE rs[i]]

\* the update without .single(): no row updated is no error
UpdateBugReport_NoSingle(id, u) ==
    /\ nRequests < MaxRequests
    /\ nRequests' = nRequests + 1
    /\ IF Updates(u) = {}
       THEN /\ lastResp' = [NoResp EXCEPT
                               !.code = 400,
                               !.error = "No valid fields to update"]
            /\ UNCHANGED reports
       ELSE /\ reports' = ApplyUpdate(reports, id, u)
            /\ lastResp' = [NoResp EXCEPT
                               !.code = 200, !.id = id,
                               !.bugReport = IF id \in Ids
                                        THEN <<Updated(reports[id], u)>>
                                        ELSE <<>>]
    /\ lastFaults' = {}
    /\ updatedInFlight' =
          (updatedInFlight \/
           (Updates(u) # {} /\ \E p \in Procs : /\ InFlight(p)
                                                /\ existingCanonicalId[p] = id))
    /\ UNCHANGED <<clock, locals, raced, late, overlapped, boundaryHit,
                   closedMatch, lostIncrement, raceSeen, nSubmitted, calls,
                   statusCounts>>

\* the handler has one await, the update itself: 400 without a field to
\* update, 404 when no row has the id (PGRST116), else the updated row
UpdateBugReport(id, u) ==
    /\ nRequests < MaxRequests
    /\ nRequests' = nRequests + 1
    /\ IF Updates(u) = {}
       THEN /\ lastResp' = [NoResp EXCEPT
                               !.code = 400,
                               !.error = "No valid fields to update"]
            /\ UNCHANGED reports
       ELSE IF id \notin Ids
       THEN /\ lastResp' = [NoResp EXCEPT !.code = 404,
                                          !.error = "Bug report not found"]
            /\ UNCHANGED reports
       ELSE /\ reports' = ApplyUpdate(reports, id, u)
            /\ lastResp' = [NoResp EXCEPT
                               !.code = 200, !.id = id,
                               !.bugReport = <<Updated(reports[id], u)>>]
    /\ lastFaults' = {}
    /\ updatedInFlight' =
          (updatedInFlight \/
           (Updates(u) # {} /\ \E p \in Procs : /\ InFlight(p)
                                                /\ existingCanonicalId[p] = id))
    /\ UNCHANGED <<clock, locals, raced, late, overlapped, boundaryHit,
                   closedMatch, lostIncrement, raceSeen, nSubmitted, calls,
                   statusCounts>>

(* --------------------------- getBugReport ------------------------------ *)
\* one select by id with .single(): the row, 404 when there is none
\* (PGRST116), 500 when the store fails
GetBugReport(id, fail) ==
    /\ nRequests < MaxRequests
    /\ nRequests' = nRequests + 1
    /\ lastResp' = IF fail THEN InternalError
                   ELSE IF id \notin Ids
                   THEN [NoResp EXCEPT !.code = 404,
                                       !.error = "Bug report not found"]
                   ELSE [NoResp EXCEPT !.code = 200, !.id = id,
                                       !.bugReport = <<reports[id]>>]
    /\ lastFaults' = IF fail THEN {"select"} ELSE {}
    /\ UNCHANGED <<reports, clock, locals, history, calls,
                   statusCounts>>

(* --------------------------- getBugReports ----------------------------- *)
Query(a, st, pr, limit, offset) ==
    [appId |-> a, status |-> st, priority |-> pr, limit |-> limit,
     offset |-> offset]

\* the default page size, limit = '50'
DefaultLimit == 50

\* the list queries sent: a tenant's first page, the page filtered by status
\* and by priority, pages of one row, the other tenant, and no tenant
Queries ==
    {Query(App1, NoValue, NoValue, DefaultLimit, 0),
     Query(App1, "open", NoValue, DefaultLimit, 0),
     Query(App1, "duplicate", NoValue, DefaultLimit, 0),
     Query(App1, NoValue, "low", DefaultLimit, 0),
     Query(App1, NoValue, NoValue, 1, 0),
     Query(App1, NoValue, NoValue, 1, 1),
     Query(App2, NoValue, NoValue, DefaultLimit, 0),
     Query(NoApp, NoValue, NoValue, DefaultLimit, 0)}

\* the list query without .is('canonical_id', null)
Listed_WithDuplicates(rs, q) ==
    {i \in 1..Len(rs) :
        /\ rs[i].app_id = q.appId
        /\ q.status # NoValue => rs[i].status = q.status
        /\ q.priority # NoValue => rs[i].priority = q.priority}

\* the rows selected by the filters of the list query
Listed(rs, q) ==
    {i \in 1..Len(rs) :
        /\ rs[i].app_id = q.appId
        /\ rs[i].canonical_id = NULL
        /\ q.status # NoValue => rs[i].status = q.status
        /\ q.priority # NoValue => rs[i].priority = q.priority}

\* .order('created_at', { ascending: false }): the orders in which the
\* store can return the rows S, rows of one created_at in any order
Newest(rs, S) ==
    {o \in [1..Cardinality(S) -> S] :
        /\ \A i, j \in 1..Cardinality(S) : i # j => o[i] # o[j]
        /\ \A i, j \in 1..Cardinality(S) :
              i < j => rs[o[i]].created_at >= rs[o[j]].created_at}

\* .range(offset, offset + limit - 1) of the ordered rows
Page(rs, o, q) ==
    [n \in 1..(IF Len(o) <= q.offset THEN 0
               ELSE IF Len(o) - q.offset < q.limit THEN Len(o) - q.offset
               ELSE q.limit) |-> rs[o[q.offset + n]]]

\* hasMore computed from the number of rows that match
GetBugReports_CountsRows(q, fail) ==
    /\ nRequests < MaxRequests
    /\ nRequests' = nRequests + 1
    /\ IF q.appId = <<>>
       THEN /\ ~fail
            /\ lastResp' = [NoResp EXCEPT
                               !.code = 400,
                               !.error = "appId query parameter is required"]
       ELSE IF fail
       THEN lastResp' = InternalError
       ELSE \E o \in Newest(reports, Listed(reports, q)) :
               lastResp' = [NoResp EXCEPT
                               !.code = 200,
                               !.bugReports = Page(reports, o, q),
                               !.hasMore = (Len(o) > q.offset + q.limit)]
    /\ lastFaults' = IF fail THEN {"select"} ELSE {}
    /\ UNCHANGED <<reports, clock, locals, history, calls,
                   statusCounts>>

\* one select: 400 without an appId, 500 when the store fails, else the
\* page and whether it is full
GetBugReports(q, fail) ==
    /\ nRequests < MaxRequests
    /\ nRequests' = nRequests + 1
    /\ IF q.appId = <<>>
       THEN /\ ~fail
            /\ lastResp' = [NoResp EXCEPT
                               !.code = 400,
                               !.error = "appId query parameter is required"]
       ELSE IF fail
       THEN lastResp' = InternalError
       ELSE \E o \in Newest(reports, Listed(reports, q)) :
               lastResp' = [NoResp EXCEPT
                               !.code = 200,
                               !.bugReports = Page(reports, o, q),
                               !.hasMore = (Len(Page(reports, o, q))
                                              = q.limit)]
    /\ lastFaults' = IF fail THEN {"select"} ELSE {}
    /\ UNCHANGED <<reports, clock, locals, history, calls,
                   statusCounts>>

(* --------------------------- getDuplicates ----------------------------- *)
\* a row as select('*') returns it: the columns and the id
Row(rs, i) == [id |-> i] @@ rs[i]

\* .eq('canonical_id', id)
DuplicateRows(rs, id) == {i \in 1..Len(rs) : rs[i].canonical_id = id}

\* .order('created_at', { ascending: true })
Oldest(rs, S) ==
    {o \in [1..Cardinality(S) -> S] :
        /\ \A i, j \in 1..Cardinality(S) : i # j => o[i] # o[j]
        /\ \A i, j \in 1..Cardinality(S) :
              i < j => rs[o[i]].created_at <= rs[o[j]].created_at}

\* the rows ordered oldest first
GetDuplicates_Ascending(id, fail) ==
    /\ IF fail
       THEN lastResp' = InternalError
       ELSE \E o \in Oldest(reports, DuplicateRows(reports, id)) :
               lastResp' = [NoResp EXCEPT
                               !.code = 200,
                               !.duplicates =
                                   [n \in 1..Len(o) |-> Row(reports, o[n])],
                               !.count = Len(o)]
    /\ lastFaults' = IF fail THEN {"select"} ELSE {}
    /\ UNCHANGED <<reports, clock, locals, history, nRequests, calls,
                   statusCounts>>

\* one select of the rows whose canonical_id is the id of the path, newest
\* first: the rows and their number, 500 when the store fails. The handler
\* writes nothing, so the model puts no bound on how often it runs.
GetDuplicates(id, fail) ==
    /\ IF fail
       THEN lastResp' = InternalError
       ELSE \E o \in Newest(reports, DuplicateRows(reports, id)) :
               lastResp' = [NoResp EXCEPT
                               !.code = 200,
                               !.duplicates =
                                   [n \in 1..Len(o) |-> Row(reports, o[n])],
                               !.count = Len(o)]
    /\ lastFaults' = IF fail THEN {"select"} ELSE {}
    /\ UNCHANGED <<reports, clock, locals, history, nRequests, calls,
                   statusCounts>>

(* ------------------------------ getStats ------------------------------- *)
\* the rows of both queries: .eq('app_id', appId).is('canonical_id', null)
StatRows(rs, a) ==
    {i \in 1..Len(rs) : rs[i].app_id = a /\ rs[i].canonical_id = NULL}

\* the forEach aggregation: a count for each value that occurs
CountBy(rs, S, field) ==
    [v \in {rs[i][field] : i \in S} |->
        Cardinality({i \in S : rs[i][field] = v})]

\* the request arrives: 400 without an appId, else the first query,
\* select('status'); 500 when the store fails
GetStats(a, fail) ==
    /\ statusCounts = NoStats
    /\ nRequests < MaxRequests
    /\ nRequests' = nRequests + 1
    /\ IF a = <<>>
       THEN /\ ~fail
            /\ lastResp' = [NoResp EXCEPT
                               !.code = 400,
                               !.error = "appId query parameter is required"]
            /\ lastFaults' = {}
            /\ UNCHANGED statusCounts
       ELSE IF fail
       THEN /\ lastResp' = InternalError
            /\ lastFaults' = {"select"}
            /\ UNCHANGED statusCounts
       ELSE /\ statusCounts' =
                  [appId |-> a,
                   total |-> Cardinality(StatRows(reports, a)),
                   byStatus |-> CountBy(reports, StatRows(reports, a),
                                        "status")]
            /\ UNCHANGED <<lastResp, lastFaults>>
    /\ UNCHANGED <<reports, clock, locals, history, calls>>

\* the second query, select('priority'), the aggregation and the answer
GetStatsPriority(fail) ==
    /\ statusCounts # NoStats
    /\ IF fail
       THEN /\ lastResp' = InternalError
            /\ lastFaults' = {"select"}
       ELSE /\ lastResp' =
                  [NoResp EXCEPT
                     !.code = 200,
                     !.stats = <<[total |-> statusCounts.total,
                                 byStatus |-> statusCounts.byStatus,
                                 byPriority |->
                                     CountBy(reports,
                                             StatRows(reports,
                                                      statusCounts.appId),
                                             "priority")]>>]
            /\ lastFaults' = {}
    /\ statusCounts' = NoStats
    /\ UNCHANGED <<reports, clock, locals, nRequests, history, calls>>

(* ----------------------- generateFingerprint --------------------------- *)
\* one call of the function on its own, its result kept next to its
\* arguments; two calls are kept, the number the claims compare
Fingerprint(appId, description, screenName) ==
    /\ Len(calls) < 2
    /\ calls' = Append(calls,
                   [appId |-> appId,
                    description |-> description,
                    screenName |-> screenName,
                    normalized |-> normalize(description),
                    fingerprint |-> generateFingerprint(appId, description,
                                                        screenName)])
    /\ UNCHANGED <<reports, clock, locals, lastResp, lastFaults, nRequests,
                   history, statusCounts>>

(* ----------------------------- time ------------------------------------ *)
\* the days on which something happens: day 0, the last day of day 0's
\* window, and the day after
Instants == {0, WindowDays, WindowDays + 1}

Tick ==
    /\ \E t \in Instants : t > clock /\ clock' = t
    /\ UNCHANGED <<reports, locals, lastResp, lastFaults, nRequests, history,
                   calls,
                   statusCounts>>

(* ------------------------- specification ------------------------------- *)
Init ==
    /\ reports = <<>>
    /\ clock = 0
    /\ pc = [p \in Procs |-> "idle"]
    /\ body = [p \in Procs |-> NoBody]
    /\ fingerprint = [p \in Procs |-> NoFingerprint]
    /\ existingCanonicalId = [p \in Procs |-> NULL]
    /\ bugReportId = [p \in Procs |-> NULL]
    /\ faults = [p \in Procs |-> {}]
    /\ screenshotUrls = [p \in Procs |-> <<>>]
    /\ lastResp = NoResp
    /\ lastFaults = {}
    /\ nRequests = 0
    /\ raced = FALSE
    /\ late = FALSE
    /\ overlapped = FALSE
    /\ boundaryHit = FALSE
    /\ closedMatch = FALSE
    /\ lostIncrement = FALSE
    /\ raceSeen = FALSE
    /\ updatedInFlight = FALSE
    /\ nSubmitted = [k \in Keys |-> 0]
    /\ calls = <<>>
    /\ statusCounts = NoStats

\* submits and the passing of time, the store answering every operation
Next ==
    \/ \E p \in Procs, b \in Bodies : SubmitLookup(p, b, FALSE)
    \/ \E p \in Procs : SubmitInsert(p, FALSE, {})
    \/ \E p \in Procs : SubmitIncrement(p, FALSE)
    \/ Tick

Spec == Init /\ [][Next]_vars

\* the same, with store operations that may fail
NextFaults ==
    \/ \E p \in Procs, b \in FaultBodies, fail \in BOOLEAN :
          SubmitLookup(p, b, fail)
    \/ \E p \in Procs, fail \in BOOLEAN : SubmitInsert(p, fail, {})
    \/ \E p \in Procs, fail \in BOOLEAN : SubmitIncrement(p, fail)
    \/ \E id \in 1..MaxRequests, fail \in BOOLEAN : GetBugReport(id, fail)
    \/ Tick

SpecFaults == Init /\ [][NextFaults]_vars

\* submits, updates, reads by id and the passing of time
NextUpdate ==
    \/ \E p \in Procs, b \in LedgerBodies : SubmitLookup(p, b, FALSE)
    \/ \E p \in Procs : SubmitInsert(p, FALSE, {})
    \/ \E p \in Procs : SubmitIncrement(p, FALSE)
    \/ \E id \in 1..MaxRequests, u \in UpdateBodies : UpdateBugReport(id, u)
    \/ \E id \in 1..MaxRequests : GetBugReport(id, FALSE)
    \/ Tick

SpecUpdate == Init /\ [][NextUpdate]_vars

\* submits of one description under several tenants
NextTenants ==
    \/ \E p \in Procs, b \in TenantBodies : SubmitLookup(p, b, FALSE)
    \/ \E p \in Procs : SubmitInsert(p, FALSE, {})
    \/ \E p \in Procs : SubmitIncrement(p, FALSE)
    \/ Tick

SpecTenants == Init /\ [][NextTenants]_vars

\* submits, status updates, lists, statistics and the passing of time
NextRead ==
    \/ \E p \in Procs, b \in ReadBodies : SubmitLookup(p, b, FALSE)
    \/ \E p \in Procs : SubmitInsert(p, FALSE, {})
    \/ \E p \in Procs : SubmitIncrement(p, FALSE)
    \/ \E id \in 1..MaxRequests :
          UpdateBugReport(id, [NoUpdate EXCEPT !.status = "resolved"])
    \/ \E q \in Queries : GetBugReports(q, FALSE)
    \/ \E a \in {App1, App2, NoApp} : GetStats(a, FALSE)
    \/ GetStatsPriority(FALSE)
    \/ Tick

SpecRead == Init /\ [][NextRead]_vars

\* submits of two keys, the passing of time and reads of the duplicates of
\* an id, stored or not
NextDuplicates ==
    \/ \E p \in Procs, b \in LedgerBodies : SubmitLookup(p, b, FALSE)
    \/ \E p \in Procs : SubmitInsert(p, FALSE, {})
    \/ \E p \in Procs : SubmitIncrement(p, FALSE)
    \/ \E id \in 1..MaxRequests : GetDuplicates(id, FALSE)
    \/ Tick

SpecDuplicates == Init /\ [][NextDuplicates]_vars

\* submits with screenshots, each upload succeeding or not
NextAttachments ==
    \/ \E p \in Procs, b \in AttachmentBodies : SubmitLookup(p, b, FALSE)
    \/ \E p \in Procs :
          \E failed \in SUBSET Attempted(body[p]) :
              SubmitInsert(p, FALSE, failed)
    \/ \E p \in Procs : SubmitIncrement(p, FALSE)

SpecAttachments == Init /\ [][NextAttachments]_vars

\* calls of generateFingerprint
NextFingerprint ==
    \E a \in {App1, App3}, d \in CallDescriptions, sn \in ScreenNames :
        Fingerprint(a, d, sn)

SpecFingerprint == Init /\ [][NextFingerprint]_vars

(* ------------------------------ claims --------------------------------- *)
Quiet == \A p \in Procs : ~InFlight(p)

IsCanonical(i) == reports[i].canonical_id = NULL

\* the canonical records of a key
Canonicals(k) == {i \in Ids : RecKey(reports[i]) = k /\ IsCanonical(i)}

\* the records that name c as their canonical record
DuplicatesOf(c) == {i \in Ids : reports[i].canonical_id = c}

RECURSIVE SumCounts(_)
SumCounts(S) ==
    IF S = {} THEN 0
    ELSE LET i == CHOOSE x \in S : TRUE
         IN  reports[i].duplicate_count + SumCounts(S \ {i})

\* C1: after N >= 1 submits of one key, none overlapping another of that
\* key and none later than 7 days after the key's first record, with no store
\* failure, the key has exactly one canonical record, whose duplicate_count
\* is N, and exactly N-1 records name it as their canonical record.
C1_CountConservation ==
    \A k \in Keys :
        ( /\ ~raced
          /\ ~late
          /\ nSubmitted[k] >= 1
          /\ \A p \in Procs : InFlight(p) => KeyOf(p) # k )
        => \E c \in Ids :
              /\ Canonicals(k) = {c}
              /\ reports[c].duplicate_count = nSubmitted[k]
              /\ Cardinality(DuplicatesOf(c)) = nSubmitted[k] - 1

C1_Witness ==
    /\ ~raced /\ ~late /\ Quiet
    /\ \E k \in Keys : nSubmitted[k] >= 3
    /\ \E i \in Ids : ~IsCanonical(i) /\ reports[i].created_at >= WindowDays

\* C2: every record has canonical_id null, or names an existing record other
\* than itself whose own canonical_id is null.
C2_NoChains ==
    \A i \in Ids :
        \/ reports[i].canonical_id = NULL
        \/ /\ reports[i].canonical_id \in Ids
           /\ reports[i].canonical_id # i
           /\ reports[reports[i].canonical_id].canonical_id = NULL

C2_Witness ==
    \E i \in Ids : /\ reports[i].canonical_id # NULL
                   /\ reports[reports[i].canonical_id].status = "resolved"

\* C3: with no store failure, whatever the interleaving of inserts and
\* increments, the duplicate_count of a canonical record is 1 plus the number
\* of records naming it, less the increments still pending; once the K
\* submits that resolved to it have completed it has grown by exactly K.
C3_NoLostIncrements ==
    \A c \in Ids :
        IsCanonical(c) =>
            reports[c].duplicate_count
              + Cardinality({p \in Procs : pc[p] = "increment"
                                           /\ existingCanonicalId[p] = c})
            = 1 + Cardinality(DuplicatesOf(c))

C3_Witness ==
    /\ overlapped /\ Quiet
    /\ \E c \in Ids : /\ IsCanonical(c)
                      /\ Cardinality(DuplicatesOf(c)) = 2
                      /\ reports[c].duplicate_count = 3

\* C4: a submit whose atomic increment failed after its duplicate record
\* was inserted never answers with a success outcome.
C4_FailedIncrementSurfaces ==
    ("increment" \in lastFaults) => lastResp.code # 201

\* C5: a submit whose canonical-match lookup failed in the store ends with
\* the internal-failure outcome.
C5_LookupFailurePropagated ==
    ("lookup" \in lastFaults) => lastResp.code = 500

\* the records stored with a key
RecordsOf(k) == {i \in Ids : RecKey(reports[i]) = k}

\* C6: with no submit in flight and no store failure, for each key the sum
\* of duplicate_count over its canonical records is the number of records
\* stored with the key, also after two overlapping submits both became
\* canonical.
C6_Convergence ==
    Quiet => \A k \in Keys :
                SumCounts(Canonicals(k)) = Cardinality(RecordsOf(k))

C6_Witness ==
    /\ Quiet /\ raced
    /\ \E k \in Keys : /\ Cardinality(Canonicals(k)) = 2
                       /\ Cardinality(RecordsOf(k)) = 3

\* the step of slot p's handler
StepOf(p) == pc'[p] # pc[p]

\* the step leaves every stored record but those in S as it was, and adds
\* n records
Keeps(S, n) ==
    /\ Len(reports') = Len(reports) + n
    /\ \A i \in Ids \ S : reports'[i] = reports[i]

\* C7: a submit to which the resolver returned canonical record c inserts
\* exactly one record, with status duplicate, canonical_id c and
\* duplicate_count 0, then raises c's duplicate_count by exactly 1 and
\* answers with isDuplicate true and canonicalId c.
C7_MatchBranch ==
    [][\A p \in Procs :
        LET c == existingCanonicalId[p]
        IN  /\ (StepOf(p) /\ pc[p] = "insert" /\ c # NULL) =>
                  /\ pc'[p] = "increment"
                  /\ existingCanonicalId'[p] = c
                  /\ Keeps({}, 1)
                  /\ bugReportId'[p] = Len(reports')
                  /\ reports'[Len(reports')].status = "duplicate"
                  /\ reports'[Len(reports')].canonical_id = c
                  /\ reports'[Len(reports')].duplicate_count = 0
            /\ (StepOf(p) /\ pc[p] = "increment") =>
                  /\ c # NULL
                  /\ Keeps({c}, 0)
                  /\ reports'[c] = [reports[c] EXCEPT
                                       !.duplicate_count = @ + 1]
                  /\ lastResp'.code = 201
                  /\ lastResp'.id = bugReportId[p]
                  /\ lastResp'.isDuplicate
                  /\ lastResp'.canonicalId = c]_vars

C7_Witness ==
    /\ lastResp.code = 201
    /\ lastResp.isDuplicate
    /\ reports[lastResp.id].canonical_id = lastResp.canonicalId
    /\ reports[lastResp.canonicalId].duplicate_count >= 2

\* C8: a submit to which the resolver returned no match inserts exactly one
\* record, with status open, canonical_id null and duplicate_count 1, issues
\* no increment, changes no other record, and answers with isDuplicate false
\* and canonicalId null.
C8_NoMatchBranch ==
    [][\A p \in Procs :
        (StepOf(p) /\ pc[p] = "insert" /\ existingCanonicalId[p] = NULL) =>
            /\ pc'[p] = "idle"
            /\ Keeps({}, 1)
            /\ reports'[Len(reports')].status = "open"
            /\ reports'[Len(reports')].canonical_id = NULL
            /\ reports'[Len(reports')].duplicate_count = 1
            /\ lastResp'.code = 201
            /\ lastResp'.id = Len(reports')
            /\ ~lastResp'.isDuplicate
            /\ lastResp'.canonicalId = NULL]_vars

C8_Witness ==
    /\ lastResp.code = 201
    /\ ~lastResp.isDuplicate
    /\ lastResp.id >= 2
    /\ reports[lastResp.id].status = "open"

\* the canonical records of tenant a and fingerprint fp inside the window
\* that ends now
InWindow(a, fp, now) ==
    {i \in Canonicals(<<a, fp>>) : reports[i].created_at >= now - WindowDays}

\* C9: when several canonical records of the submit's tenant and fingerprint
\* lie inside the 7-day window, the resolver returns one with the smallest
\* created_at.
C9_OldestWins ==
    [][\A p \in Procs :
        (StepOf(p) /\ pc[p] = "idle" /\ pc'[p] = "insert") =>
            LET m == InWindow(body'[p].appId, fingerprint'[p], clock)
            IN  m # {} =>
                  /\ existingCanonicalId'[p] \in m
                  /\ \A j \in m :
                        reports[existingCanonicalId'[p]].created_at
                          <= reports[j].created_at]_vars

C9_Witness ==
    \E p \in Procs :
        /\ pc[p] = "insert"
        /\ existingCanonicalId[p] # NULL
        /\ \E j \in InWindow(body[p].appId, fingerprint[p], clock) :
              reports[j].created_at
                > reports[existingCanonicalId[p]].created_at

\* C10: the resolver returns a canonical record of the submit's tenant and
\* fingerprint if and only if one was created at now - 7 days or later, and
\* never returns one created earlier; a record created exactly at
\* now - 7 days is matched.
C10_WindowBoundary ==
    [][\A p \in Procs :
        (StepOf(p) /\ pc[p] = "idle" /\ pc'[p] = "insert") =>
            LET k == <<body'[p].appId, fingerprint'[p]>>
                c == existingCanonicalId'[p]
            IN  /\ (c # NULL) <=>
                      \E i \in Canonicals(k) :
                          reports[i].created_at >= clock - WindowDays
                /\ c # NULL =>
                      /\ c \in Canonicals(k)
                      /\ reports[c].created_at >= clock - WindowDays]_vars

C10_Witness ==
    /\ boundaryHit
    /\ \E p \in Procs :
          /\ pc[p] = "insert"
          /\ existingCanonicalId[p] = NULL
          /\ \E i \in Canonicals(KeyOf(p)) :
                reports[i].created_at < clock - WindowDays

\* the records stored for a tenant
TenantRecords(a) == {i \in Ids : reports[i].app_id = a}

\* C11: a duplicate and the canonical record it names have the same tenant
\* and the same fingerprint; a tenant's first record is canonical whatever
\* other tenants stored, and the same description submitted once under each
\* of two tenants leaves two canonical records with duplicate_count 1.
C11_TenantIsolation ==
    /\ \A i \in Ids :
          ~IsCanonical(i) =>
              /\ reports[reports[i].canonical_id].app_id = reports[i].app_id
              /\ reports[reports[i].canonical_id].fingerprint
                    = reports[i].fingerprint
    /\ \A a \in AppIds :
          (TenantRecords(a) # {} /\ \A p \in Procs : body[p].appId # a) =>
              LET first == CHOOSE i \in TenantRecords(a) :
                               \A j \in TenantRecords(a) : i <= j
              IN  /\ IsCanonical(first)
                  /\ TenantRecords(a) = {first} =>
                        reports[first].duplicate_count = 1

C11_Witness ==
    /\ Quiet
    /\ \E i, j \in Ids :
          /\ reports[i].app_id # reports[j].app_id
          /\ reports[i].description = reports[j].description
          /\ reports[i].fingerprint = reports[j].fingerprint
          /\ TenantRecords(reports[i].app_id) = {i}
          /\ TenantRecords(reports[j].app_id) = {j}
          /\ IsCanonical(i) /\ reports[i].duplicate_count = 1
          /\ IsCanonical(j) /\ reports[j].duplicate_count = 1

\* C12: a submit with an empty appId, a description of trimmed length below
\* 5 or a priority outside {low, medium, high} is answered 400; it creates
\* no record, changes none, and its handler goes no further: no lookup
\* result is kept and the slot stays free.
C12_ValidationLeavesStore ==
    [][\A p \in Procs, b \in Bodies :
        ( /\ \/ b.appId = <<>>
             \/ Len(trim(b.description)) < 5
             \/ b.priority \notin {"low", "medium", "high"}
          /\ SubmitLookup(p, b, FALSE) )
        => /\ lastResp'.code = 400
           /\ reports' = reports
           /\ locals' = locals
           /\ pc'[p] = "idle"]_vars

C12_Witness ==
    /\ lastResp.code = 400
    /\ reports # <<>>
    /\ \E p \in Procs : InFlight(p)

\* C13: the normalized text of every description is left unchanged by a
\* second normalization.
C13_NormalizeIdempotent ==
    \A i \in 1..Len(calls) :
        normalize(calls[i].normalized) = calls[i].normalized

\* C14: two calls with the same (appId, description, screenName) return the
\* same digest, and two calls that differ in the appId alone return digests
\* of different inputs.
C14_FingerprintDeterminism ==
    \A i, j \in 1..Len(calls) :
        /\ ( /\ calls[i].appId = calls[j].appId
             /\ calls[i].description = calls[j].description
             /\ calls[i].screenName = calls[j].screenName )
           => calls[i].fingerprint = calls[j].fingerprint
        /\ ( /\ calls[i].appId # calls[j].appId
             /\ calls[i].description = calls[j].description
             /\ calls[i].screenName = calls[j].screenName )
           => calls[i].fingerprint # calls[j].fingerprint

C14_Witness ==
    /\ Len(calls) = 2
    /\ calls[1].appId # calls[2].appId
    /\ calls[1].description = calls[2].description
    /\ calls[1].screenName = calls[2].screenName
    /\ Len(calls[1].description) > MaxNormalized
    /\ calls[1].fingerprint # calls[2].fingerprint

\* the stored descriptions of i and j differ, but only in letter case and in
\* characters that the normalization removes
SameWording(i, j) ==
    /\ reports[i].description # reports[j].description
    /\ Strip(MapLower(reports[i].description))
         = Strip(MapLower(reports[j].description))

\* C15: two records of one tenant (and screen) whose descriptions differ only
\* in case and stripped characters have the same fingerprint, whatever their
\* priorities; when they are the tenant's only records, submitted one after
\* the other within 7 days, the second has status duplicate and names the
\* first, whose duplicate_count is 2.
C15_KeyIgnoresCaseAndPriority ==
    \A i, j \in Ids :
        ( /\ i < j
          /\ reports[i].app_id = reports[j].app_id
          /\ SameWording(i, j) )
        => /\ reports[i].fingerprint = reports[j].fingerprint
           /\ ( /\ ~raced /\ ~late /\ Quiet
                /\ TenantRecords(reports[i].app_id) = {i, j} )
              => /\ reports[j].status = "duplicate"
                 /\ reports[j].canonical_id = i
                 /\ reports[i].duplicate_count = 2

C15_Witness ==
    /\ ~raced /\ ~late /\ Quiet
    /\ \E i, j \in Ids :
          /\ i < j
          /\ TenantRecords(reports[i].app_id) = {i, j}
          /\ SameWording(i, j)
          /\ reports[i].priority # reports[j].priority
          /\ reports[j].created_at = reports[i].created_at + WindowDays
          /\ reports[j].canonical_id = i
          /\ reports[i].duplicate_count = 2

\* the ids a request can name: those of the records and some of no record
RequestIds == 1..MaxRequests

\* C16: a successful update of record id leaves its fingerprint,
\* canonical_id, duplicate_count, app_id, description and priority as they
\* were, gives each supplied field among status, fix_status, suggested_fix
\* and claude_analysis the supplied value, leaves the fields not supplied
\* as they were, and changes no other record.
C16_UpdateFrame ==
    [][\A id \in RequestIds, u \in UpdateBodies :
        (lastResp'.code = 200 /\ UpdateBugReport(id, u)) =>
            /\ id \in Ids
            /\ Len(reports') = Len(reports)
            /\ \A i \in Ids \ {id} : reports'[i] = reports[i]
            /\ reports'[id].fingerprint = reports[id].fingerprint
            /\ reports'[id].canonical_id = reports[id].canonical_id
            /\ reports'[id].duplicate_count = reports[id].duplicate_count
            /\ reports'[id].app_id = reports[id].app_id
            /\ reports'[id].description = reports[id].description
            /\ reports'[id].priority = reports[id].priority
            /\ reports'[id].created_at = reports[id].created_at
            /\ reports'[id].status =
                  IF u.status = "" THEN reports[id].status ELSE u.status
            /\ reports'[id].fix_status =
                  IF u.fixStatus = "" THEN reports[id].fix_status
                  ELSE u.fixStatus
            /\ reports'[id].suggested_fix =
                  IF u.suggestedFix = "" THEN reports[id].suggested_fix
                  ELSE u.suggestedFix
            /\ reports'[id].claude_analysis =
                  IF u.claudeAnalysis = "" THEN reports[id].claude_analysis
                  ELSE u.claudeAnalysis]_vars

C16_Witness ==
    /\ lastResp.code = 200
    /\ lastResp.bugReport # <<>>
    /\ Len(reports) >= 2
    /\ reports[lastResp.id].canonical_id # NULL
    /\ reports[lastResp.id].suggested_fix = "fix"
    /\ reports[lastResp.id].status = "duplicate"
    /\ lastResp.bugReport[1] = reports[lastResp.id]

\* C17: an update whose body has none of status, fixStatus, suggestedFix
\* and claudeAnalysis is answered 400 and writes nothing, for the id of a
\* record and for the id of none.
C17_ZeroFieldUpdate ==
    [][\A id \in RequestIds, u \in UpdateBodies :
        ( /\ u.status = "" /\ u.fixStatus = ""
          /\ u.suggestedFix = "" /\ u.claudeAnalysis = ""
          /\ UpdateBugReport(id, u) )
        => /\ lastResp'.code = 400
           /\ reports' = reports]_vars

C17_Witness ==
    /\ lastResp.code = 400
    /\ lastResp.error = "No valid fields to update"
    /\ Ids # {}
    /\ RequestIds \ Ids # {}

\* C18: a get, or an update that supplies a field, addressed to an id that
\* no record has is answered 404, which is neither the validation error 400
\* nor the internal failure 500, and creates or changes no record; a get of
\* an existing id returns that record, canonical or duplicate.
C18_NotFound ==
    [][\A id \in RequestIds :
        /\ GetBugReport(id, FALSE) =>
              /\ reports' = reports
              /\ IF id \in Ids
                 THEN /\ lastResp'.code = 200
                      /\ lastResp'.bugReport = <<reports[id]>>
                 ELSE /\ lastResp'.code = 404
                      /\ lastResp'.code \notin {400, 500}
        /\ \A u \in UpdateBodies \ {NoUpdate} :
              (UpdateBugReport(id, u) /\ id \notin Ids) =>
                  /\ reports' = reports
                  /\ lastResp'.code = 404
                  /\ lastResp'.code \notin {400, 500}]_vars

C18_Witness ==
    /\ lastResp.code = 404
    /\ \E i \in Ids : reports[i].canonical_id # NULL

\* C19: every row of a list answer has the tenant asked for, canonical_id
\* null and the status and priority asked for, whatever its status; the
\* rows are in descending order of created_at; the answer for the first
\* page has every such row when there are no more than the limit.
C19_ListCanonicalOnly ==
    [][\A q \in Queries :
        (lastResp'.code = 200 /\ GetBugReports(q, FALSE)) =>
            LET page == lastResp'.bugReports
            IN  /\ \A n \in 1..Len(page) :
                      /\ page[n].app_id = q.appId
                      /\ page[n].canonical_id = NULL
                      /\ q.status # "" => page[n].status = q.status
                      /\ q.priority # "" => page[n].priority = q.priority
                      /\ \E i \in Ids : reports[i] = page[n]
                /\ \A n, k \in 1..Len(page) :
                      n < k => page[n].created_at >= page[k].created_at
                /\ Len(page) <= q.limit
                /\ q.offset = 0 =>
                      \A i \in Ids :
                          ( /\ reports[i].app_id = q.appId
                            /\ reports[i].canonical_id = NULL
                            /\ q.status # "" => reports[i].status = q.status
                            /\ q.priority # "" =>
                                  reports[i].priority = q.priority
                            /\ Len(page) < q.limit )
                          => \E n \in 1..Len(page) : page[n] = reports[i]]_vars

C19_Witness ==
    /\ lastResp.code = 200
    /\ Len(lastResp.bugReports) = 1
    /\ lastResp.bugReports[1].canonical_id = NULL
    /\ \E i \in Ids : /\ reports[i].canonical_id # NULL
                      /\ reports[i].app_id = lastResp.bugReports[1].app_id
                      /\ Cardinality(TenantRecords(reports[i].app_id)) = 2

\* the figure that a grouped count gives for value v
Figure(counts, v) == IF v \in DOMAIN counts THEN counts[v] ELSE 0

\* C20: the statistics answered for a tenant are those of its canonical
\* records: total is their number, byStatus[s] and byPriority[p] the number
\* of them with status s and priority p; duplicates count nowhere.
C20_StatsCountCanonical ==
    [][GetStatsPriority(FALSE) =>
        LET a == statusCounts.appId
            canon == {i \in Ids : /\ reports[i].app_id = a
                                  /\ reports[i].canonical_id = NULL}
            st == lastResp'.stats[1]
        IN  /\ st.total = Cardinality(canon)
            /\ \A v \in Statuses :
                  Figure(st.byStatus, v)
                    = Cardinality({i \in canon : reports[i].status = v})
            /\ \A v \in Priorities :
                  Figure(st.byPriority, v)
                    = Cardinality({i \in canon : reports[i].priority = v})]_vars

\* the canonical rows of the tenant that pass the filters of query q
Matching(q) ==
    {i \in Ids : /\ reports[i].app_id = q.appId
                 /\ reports[i].canonical_id = NULL
                 /\ q.status # "" => reports[i].status = q.status
                 /\ q.priority # "" => reports[i].priority = q.priority}

\* C25: hasMore is true exactly when the answer has limit rows; hasMore
\* false means that no matching canonical row lies at position
\* offset + limit or later; hasMore true is also answered when the next
\* page is empty.
C25_HasMore ==
    [][\A q \in Queries :
        (lastResp'.code = 200 /\ GetBugReports(q, FALSE)) =>
            /\ lastResp'.hasMore <=> (Len(lastResp'.bugReports) = q.limit)
            /\ ~lastResp'.hasMore =>
                  Cardinality(Matching(q)) < q.offset + q.limit]_vars

\* a full page answered with hasMore although no row follows it
C25_Witness ==
    /\ lastResp.code = 200
    /\ lastResp.hasMore
    /\ Len(lastResp.bugReports) = 1
    /\ TenantRecords(lastResp.bugReports[1].app_id) # {}
    /\ \A i \in TenantRecords(lastResp.bugReports[1].app_id) :
          \/ reports[i] = lastResp.bugReports[1]
          \/ reports[i].canonical_id # NULL

\* C28: in every reachable state a record has status "duplicate" exactly
\* when its canonical_id is non-null.
C28_StatusFollowsLinkage ==
    \A i \in Ids :
        (reports[i].status = "duplicate") <=> (reports[i].canonical_id # NULL)

\* C24: a step of a submit changes at most one record that existed before
\* it, the canonical record the resolver returned to that submit, and of
\* that record only duplicate_count; the status, fingerprint and
\* canonical_id of every record that existed before are unchanged.
C24_SubmitFrame ==
    [][\A p \in Procs :
        StepOf(p) =>
            /\ Len(reports') >= Len(reports)
            /\ \A i \in Ids :
                  /\ reports'[i].status = reports[i].status
                  /\ reports'[i].fingerprint = reports[i].fingerprint
                  /\ reports'[i].canonical_id = reports[i].canonical_id
                  /\ [reports'[i] EXCEPT !.duplicate_count =
                         reports[i].duplicate_count] = reports[i]
                  /\ reports'[i] # reports[i] =>
                        /\ i = existingCanonicalId[p]
                        /\ i # bugReportId[p]
                        /\ reports[i].canonical_id = NULL]_vars

\* a submit has just raised the count of a record that an update had
\* marked resolved
C24_Witness ==
    /\ lastResp.code = 201
    /\ lastResp.isDuplicate
    /\ reports[lastResp.canonicalId].status = "resolved"
    /\ reports[lastResp.canonicalId].duplicate_count = 2

\* C29: the resolver returns a canonical record of the submit's tenant and
\* fingerprint whenever one lies inside the window, whatever the status of
\* the records; the submit to which it returned record c inserts a
\* duplicate of c and raises c's duplicate_count by 1 whatever c's status,
\* which it leaves as it was.
C29_ResolverIgnoresStatus ==
    [][\A p \in Procs :
        /\ (StepOf(p) /\ pc[p] = "idle" /\ pc'[p] = "insert") =>
              LET m == InWindow(body'[p].appId, fingerprint'[p], clock)
              IN  /\ m # {} => existingCanonicalId'[p] \in m
                  /\ m = {} => existingCanonicalId'[p] = NULL
        /\ (StepOf(p) /\ pc[p] = "insert" /\ existingCanonicalId[p] # NULL) =>
              /\ pc'[p] = "increment"
              /\ reports'[Len(reports')].canonical_id = existingCanonicalId[p]
              /\ reports'[Len(reports')].status = "duplicate"
        /\ (StepOf(p) /\ pc[p] = "increment") =>
              LET c == existingCanonicalId[p]
              IN  /\ reports'[c].duplicate_count
                        = reports[c].duplicate_count + 1
                  /\ reports'[c].status = reports[c].status]_vars

\* a record was resolved by an update, then matched by a submit, which has
\* become its duplicate and raised its count
C29_Witness ==
    /\ closedMatch
    /\ Quiet
    /\ \E c \in Ids :
          /\ reports[c].status = "resolved"
          /\ reports[c].duplicate_count = 2
          /\ \E d \in DuplicatesOf(c) : reports[d].status = "duplicate"

\* the canonical records of tenant a and fingerprint fp created more than
\* 7 days before now
Expired(a, fp, now) ==
    {i \in Canonicals(<<a, fp>>) : reports[i].created_at < now - WindowDays}

\* C30: a submit whose matching canonical records were all created more
\* than 7 days before its lookup gets no match, inserts a canonical record
\* with duplicate_count 1 and changes no stored record; a lookup never
\* returns an expired record, and returns a record inside the window when
\* there is one.
C30_WindowExpiry ==
    [][\A p \in Procs :
        /\ (StepOf(p) /\ pc[p] = "idle" /\ pc'[p] = "insert") =>
              LET a == body'[p].appId
                  fp == fingerprint'[p]
                  c == existingCanonicalId'[p]
              IN  /\ c \notin Expired(a, fp, clock)
                  /\ (Expired(a, fp, clock) = Canonicals(<<a, fp>>)) =>
                        c = NULL
                  /\ InWindow(a, fp, clock) # {} =>
                        c \in InWindow(a, fp, clock)
        /\ (StepOf(p) /\ pc[p] = "insert" /\ existingCanonicalId[p] = NULL) =>
              /\ Keeps({}, 1)
              /\ reports'[Len(reports')].canonical_id = NULL
              /\ reports'[Len(reports')].duplicate_count = 1]_vars

\* the first record of a key has expired with count 1, a second canonical
\* record of the key was created after the expiry and a later submit has
\* become the duplicate of the second
C30_Witness ==
    \E i, j, d \in Ids :
        /\ RecKey(reports[i]) = RecKey(reports[j])
        /\ IsCanonical(i) /\ IsCanonical(j)
        /\ reports[j].created_at > reports[i].created_at + WindowDays
        /\ reports[i].duplicate_count = 1
        /\ reports[j].duplicate_count = 2
        /\ DuplicatesOf(j) = {d}
        /\ DuplicatesOf(i) = {}
        /\ Quiet

\* C27: every record with a non-null canonical_id has duplicate_count 0, and
\* no step lowers the duplicate_count of a record.
C27_DuplicatesNotCounted ==
    [][/\ Len(reports') >= Len(reports)
       /\ \A i \in Ids :
             reports'[i].duplicate_count >= reports[i].duplicate_count
       /\ \A i \in 1..Len(reports') :
             reports'[i].canonical_id # NULL =>
                 reports'[i].duplicate_count = 0]_vars

\* a record counted twice and its duplicate, still at count 0 after an
\* update has given the duplicate another status
C27_Witness ==
    /\ Quiet
    /\ lastResp.code = 200
    /\ \E c \in Ids :
          /\ reports[c].duplicate_count = 2
          /\ \E d \in DuplicatesOf(c) :
                /\ reports[d].duplicate_count = 0
                /\ reports[d].status # "duplicate"

\* C21: the duplicates answered for an id are the records whose
\* canonical_id is that id, each once, newest first, and count is their
\* number; the answer is empty for the id of a duplicate and for an id
\* that is not stored.
C21_ListDuplicates ==
    [][\A id \in 1..MaxRequests :
        (lastResp'.code = 200 /\ GetDuplicates(id, FALSE)) =>
            LET d == lastResp'.duplicates
            IN  /\ {d[n].id : n \in 1..Len(d)} = DuplicatesOf(id)
                /\ Len(d) = Cardinality(DuplicatesOf(id))
                /\ \A n \in 1..Len(d) : d[n] = Row(reports, d[n].id)
                /\ \A n1, n2 \in 1..Len(d) :
                      n1 < n2 => d[n1].created_at >= d[n2].created_at
                /\ lastResp'.count = Len(d)
                /\ (id \notin Ids \/ ~IsCanonical(id)) =>
                      (d = <<>> /\ lastResp'.count = 0)]_vars

\* two duplicates of one record answered, the newer one first
C21_Witness ==
    /\ lastResp.code = 200
    /\ lastResp.count = 2
    /\ lastResp.duplicates[1].created_at > lastResp.duplicates[2].created_at
    /\ lastResp.duplicates[1].canonical_id
          = lastResp.duplicates[2].canonical_id

\* the submits that have inserted a duplicate of c and not yet run their
\* increment
Pending(c) ==
    {p \in Procs : pc[p] = "increment" /\ existingCanonicalId[p] = c}

\* C26: in every reachable state, with submits in flight or stopped between
\* insert and increment and with store calls that have failed, every
\* canonical record's duplicate_count is at least 1 and at most 1 plus the
\* number of records that name it; it is exactly that when no submit that
\* inserted a duplicate of it still has its increment to run and no
\* increment has failed.
C26_NoOvershoot ==
    \A c \in Ids :
        IsCanonical(c) =>
            /\ reports[c].duplicate_count >= 1
            /\ reports[c].duplicate_count
                  <= 1 + Cardinality(DuplicatesOf(c))
            /\ (Pending(c) = {} /\ ~lostIncrement) =>
                  reports[c].duplicate_count
                      = 1 + Cardinality(DuplicatesOf(c))

\* a record with two duplicates, counted once because one increment
\* failed, and one with a duplicate whose increment has not run
C26_Witness ==
    /\ lostIncrement
    /\ \E c \in Ids :
          /\ IsCanonical(c)
          /\ Cardinality(DuplicatesOf(c)) = 2
          /\ reports[c].duplicate_count = 1
          /\ Cardinality(Pending(c)) = 1

\* C23: inside one submit the lookup comes first and writes nothing, the
\* insert comes after it, and a duplicate_count is raised only by a submit
\* standing after its own successful insert of a duplicate of that record;
\* a submit whose insert fails answers 500 and leaves every record as it
\* was.
C23_RequestOrder ==
    [][/\ \A p \in Procs :
            /\ (StepOf(p) /\ pc'[p] = "insert") =>
                  (pc[p] = "idle" /\ reports' = reports)
            /\ (StepOf(p) /\ pc'[p] = "increment") =>
                  /\ pc[p] = "insert"
                  /\ Keeps({}, 1)
                  /\ bugReportId'[p] = Len(reports')
            /\ (pc[p] = "insert" /\ SubmitInsert(p, TRUE, {})) =>
                  /\ reports' = reports
                  /\ pc'[p] = "idle"
                  /\ lastResp'.code = 500
       /\ Len(reports') > Len(reports) =>
             \E p \in Procs : StepOf(p) /\ pc[p] = "insert"
       /\ \A c \in Ids :
             reports'[c].duplicate_count # reports[c].duplicate_count =>
                 \E p \in Procs :
                     /\ StepOf(p) /\ pc[p] = "increment"
                     /\ existingCanonicalId[p] = c
                     /\ bugReportId[p] \in Ids
                     /\ reports[bugReportId[p]].canonical_id = c
                     /\ reports[bugReportId[p]].fingerprint = fingerprint[p]
      ]_vars

\* the second submit of a key found the first record and its insert
\* failed: the record stands alone at count 1
C23_Witness ==
    /\ lastResp.code = 500
    /\ lastFaults = {"insert"}
    /\ ~raced /\ ~late /\ Quiet
    /\ nRequests = 2
    /\ Len(reports) = 1
    /\ reports[1].duplicate_count = 1

\* the n-th smallest member of the set of positions S
Nth(S, n) == CHOOSE x \in S : Cardinality({y \in S : y < x}) = n - 1

\* C22: whichever uploads of a submit fail, the submit inserts its record
\* with the status, canonical_id and duplicate_count that the resolver's
\* result alone decides; the record's screenshot_urls are the URLs of the
\* uploads that succeeded, in the order of the input; screenshot_url is the
\* first of them, or null when there is none; and the screenshotCount
\* answered is the number of URLs stored.
C22_AttachmentFailures ==
    [][\A p \in Procs :
        /\ \A failed \in SUBSET Attempted(body[p]) :
              (pc[p] = "insert" /\ SubmitInsert(p, FALSE, failed)) =>
                LET new == reports'[Len(reports')]
                    ok == Attempted(body[p]) \ failed
                    c == existingCanonicalId[p]
                IN  /\ Keeps({}, 1)
                    /\ new.status = IF c # NULL THEN "duplicate" ELSE "open"
                    /\ new.canonical_id = c
                    /\ new.duplicate_count = IF c # NULL THEN 0 ELSE 1
                    /\ Len(new.screenshot_urls) = Cardinality(ok)
                    /\ \A n \in 1..Cardinality(ok) :
                          new.screenshot_urls[n]
                            = Url(body[p].appId, Entries(body[p])[Nth(ok, n)])
                    /\ new.screenshot_url =
                          IF ok = {} THEN NoUrl ELSE new.screenshot_urls[1]
                    /\ c = NULL =>
                          /\ lastResp'.code = 201
                          /\ lastResp'.screenshotCount
                                = Len(new.screenshot_urls)
                    /\ c # NULL => pc'[p] = "increment"
        /\ (StepOf(p) /\ pc[p] = "increment") =>
              /\ lastResp'.code = 201
              /\ lastResp'.screenshotCount
                    = Len(reports'[lastResp'.id].screenshot_urls)
              /\ reports'[lastResp'.canonicalId].duplicate_count
                    = reports[lastResp'.canonicalId].duplicate_count + 1]_vars

\* of the array's two images the first failed to upload: the record, a
\* duplicate, holds the URL of the second alone, and 1 screenshot is answered
C22_Witness ==
    /\ lastResp.code = 201
    /\ lastResp.isDuplicate
    /\ lastResp.screenshotCount = 1
    /\ reports[lastResp.id].screenshot_urls = <<Url(App1, "s2")>>
    /\ reports[lastResp.id].screenshot_url = Url(App1, "s2")
    /\ reports[lastResp.id].status = "duplicate"
    /\ reports[lastResp.canonicalId].duplicate_count >= 2

\* C34: two calls whose triples (appId, normalized description, screen name
\* or the empty string) differ in a component compose different hash inputs.
C34_InputInjective ==
    \A i, j \in 1..Len(calls) :
        ( \/ calls[i].appId # calls[j].appId
          \/ calls[i].normalized # calls[j].normalized
          \/ calls[i].screenName # calls[j].screenName )
        => calls[i].fingerprint # calls[j].fingerprint

\* the sum of the figures of a grouped count
RECURSIVE SumFigures(_)
SumFigures(counts) ==
    IF DOMAIN counts = {} THEN 0
    ELSE LET v == CHOOSE x \in DOMAIN counts : TRUE
         IN  counts[v]
               + SumFigures([w \in DOMAIN counts \ {v} |-> counts[w]])

\* C32: in every statistics answer the byStatus figures and the byPriority
\* figures each add up to total, also when submits of the tenant complete
\* between the two reads.
C32_StatsConsistent ==
    lastResp.stats # <<>> =>
        /\ SumFigures(lastResp.stats[1].byStatus) = lastResp.stats[1].total
        /\ SumFigures(lastResp.stats[1].byPriority) = lastResp.stats[1].total

\* C31: when several canonical records of one tenant and fingerprint lie
\* inside the window, a lookup returns one of the earliest created; and as
\* long as a canonical record created earlier is inside the window, a
\* canonical record of the same key created later has duplicate_count 1 and
\* no record names it.
C31_RaceBounded ==
    [][/\ \A p \in Procs :
            (StepOf(p) /\ pc[p] = "idle" /\ pc'[p] = "insert") =>
                LET m == InWindow(body'[p].appId, fingerprint'[p], clock)
                    c == existingCanonicalId'[p]
                IN  Cardinality(m) >= 2 =>
                      /\ c \in m
                      /\ \A j \in m :
                            reports[c].created_at <= reports[j].created_at
       /\ \A i, j \in 1..Len(reports') :
             ( /\ reports'[i].canonical_id = NULL
               /\ reports'[j].canonical_id = NULL
               /\ RecKey(reports'[i]) = RecKey(reports'[j])
               /\ reports'[i].created_at < reports'[j].created_at
               /\ reports'[i].created_at >= clock' - WindowDays )
             => /\ reports'[j].duplicate_count = 1
                /\ \A d \in 1..Len(reports') :
                      reports'[d].canonical_id # j]_vars

\* two overlapping submits have each become canonical, on different days;
\* a lookup that found both was answered with the earlier one, which now
\* has count 2 and the duplicate, the later one count 1 and none
C31_Witness ==
    /\ raced /\ raceSeen /\ Quiet
    /\ \E i, j \in Ids :
          /\ IsCanonical(i) /\ IsCanonical(j)
          /\ RecKey(reports[i]) = RecKey(reports[j])
          /\ reports[i].created_at < reports[j].created_at
          /\ reports[i].created_at >= clock - WindowDays
          /\ reports[i].duplicate_count = 2
          /\ Cardinality(DuplicatesOf(i)) = 1
          /\ reports[j].duplicate_count = 1
          /\ DuplicatesOf(j) = {}

\* C33: an update writes the fields its body supplies and leaves
\* duplicate_count as it is; an increment raises duplicate_count by 1 and
\* leaves the status and the fix fields as they are; and when every submit
\* has completed, each canonical record's duplicate_count is 1 plus the
\* number of records that name it, whatever updates ran in between.
C33_UpdateAndIncrement ==
    [][/\ \A id \in 1..MaxRequests, u \in UpdateBodies :
            (lastResp'.code = 200 /\ UpdateBugReport(id, u)) =>
                /\ u.status # NoValue => reports'[id].status = u.status
                /\ u.fixStatus # NoValue =>
                      reports'[id].fix_status = u.fixStatus
                /\ u.suggestedFix # NoValue =>
                      reports'[id].suggested_fix = u.suggestedFix
                /\ u.claudeAnalysis # NoValue =>
                      reports'[id].claude_analysis = u.claudeAnalysis
                /\ reports'[id].duplicate_count = reports[id].duplicate_count
       /\ \A p \in Procs :
            (StepOf(p) /\ pc[p] = "increment") =>
                LET c == existingCanonicalId[p]
                IN  /\ reports'[c].duplicate_count
                          = reports[c].duplicate_count + 1
                    /\ reports'[c].status = reports[c].status
                    /\ reports'[c].fix_status = reports[c].fix_status
                    /\ reports'[c].suggested_fix = reports[c].suggested_fix
                    /\ reports'[c].claude_analysis
                          = reports[c].claude_analysis
       /\ (\A p \in Procs : pc'[p] = "idle") =>
             \A c \in 1..Len(reports') :
                 reports'[c].canonical_id = NULL =>
                     reports'[c].duplicate_count
                       = 1 + Cardinality({d \in 1..Len(reports') :
                                            reports'[d].canonical_id = c})
      ]_vars

\* a record was updated while a submit that had matched it was in flight;
\* the submit has completed: the record has the updated fields and count 2
C33_Witness ==
    /\ updatedInFlight
    /\ Quiet
    /\ \E c \in Ids :
          /\ IsCanonical(c)
          /\ reports[c].duplicate_count = 2
          /\ Cardinality(DuplicatesOf(c)) = 1
          /\ reports[c].status = "in_progress"
          /\ reports[c].fix_status = "pending"
          /\ reports[c].suggested_fix = "fix"
          /\ reports[c].claude_analysis = "analysis"

TypeOK ==
    /\ clock \in Instants
    /\ Len(reports) <= nRequests
    /\ \A p \in Procs : pc[p] \in {"idle", "insert", "increment"}
====
